---- MODULE Spec2Model ----
(***************************************************************************)
(* Tuture CLI (lib/utils.js, lib/git.js): the commands init, reload, up    *)
(* and destroy acting on the files of a repository (tuture.yml, .tuture,   *)
(* .gitignore, .git/hooks/post-commit) and on its commit history.          *)
(*                                                                         *)
(* Strings the code slices (log lines, hashes, messages) are sequences of  *)
(* one-character strings; a file that may be missing is <<>> or            *)
(* <<content>>; a JavaScript object is a record, and a key the object does *)
(* not have is a field the record does not have.                           *)
(***************************************************************************)
EXTENDS Naturals, Sequences, FiniteSets

VARIABLES
  history,   \* the commits of the repository, oldest first: a sequence of message kinds
  dotGit,    \* whether .git exists
  disk,      \* the files the commands touch
  cmd,       \* the running invocation: "none", "init", "reload"
  pc,        \* where the running invocation stands
  fetches,   \* the git subprocesses still running, and what has come of the others
  loaded,    \* the tuture object the invocation holds (<<>>: none)
  built,     \* the step list getSteps returned to the invocation (<<>> before)
  gitRuns,   \* git subprocesses spawned by the invocation
  out,       \* the messages the invocation has printed
  exit,      \* exit status of the invocation that ended last (NotEnded before)
  snap,      \* the files as the invocation found them
  nodeMode,  \* what this Node.js does with an unhandled rejection: "warn" or "throw"
  round      \* reloads run one after the other with nothing in between

vars == <<history, dotGit, disk, cmd, pc, fetches, loaded, built, gitRuns, out,
          exit, snap, nodeMode, round>>

---------------------------------------------------------------------------
(* Bounds *)

MaxCommits == 2    \* commits in the history
MaxOldSteps == 2   \* steps of a hand-edited tuture.yml
MaxRounds == 2     \* back-to-back reloads
MaxHistory == 3    \* commits of a history a reload is run on as a whole
MaxHookLen == 5    \* pieces of a post-commit hook that init is still run on
MaxCycles == 3     \* commands run one after the other, each as a whole

(* Program constants *)

HashEnd == 7       \* log.slice(0, 7)
MsgStart == 8      \* log.slice(8, log.length)

---------------------------------------------------------------------------
(* Strings *)

Min(a, b) == IF a < b THEN a ELSE b

\* s.slice(from, to) of JavaScript, from and to 0-based, to exclusive
Slice(s, from, to) == SubSeq(s, from + 1, Min(to, Len(s)))

StartsWith(s, p) == Len(s) >= Len(p) /\ SubSeq(s, 1, Len(p)) = p

RECURSIVE Reverse(_)
Reverse(s) == IF s = <<>> THEN <<>> ELSE Reverse(Tail(s)) \o <<Head(s)>>

RECURSIVE Filter(_, _)
Filter(s, keep) ==
  IF s = <<>> THEN <<>>
  ELSE (IF Head(s) \in keep THEN <<Head(s)>> ELSE <<>>) \o Filter(Tail(s), keep)

Range(s) == {s[i] : i \in 1..Len(s)}

---------------------------------------------------------------------------
(* The repository as git shows it *)

Kinds == {"feat", "tuture", "fix", "merge"}

\* the subject line of a commit of each kind
MsgOf(kind) ==
  CASE kind = "feat"   -> <<"f","e","a","t",":"," ","a","d","d"," ","x">>
    [] kind = "tuture" -> <<"t","u","t","u","r","e",":"," ","h","o","u","s","e","k","e","e","p","i","n","g">>
    [] kind = "fix"    -> <<"f","i","x",":"," ","b","u","g">>
    [] kind = "merge"  -> <<"M","e","r","g","e"," ","x">>

Digit == <<"1", "2", "3", "4", "5", "6", "7", "8">>

\* the abbreviated object name git prints for the i-th commit
HashOf(i) == <<"c", "0", "f", "f", "e", "e", Digit[i]>>

\* one line of `git log --oneline`
LogLine(i, kind) == HashOf(i) \o <<" ">> \o MsgOf(kind)

\* the lines of `git log --oneline --no-merges`, newest first
RECURSIVE OnelineNoMerges(_, _)
OnelineNoMerges(h, i) ==
  IF i = 0 THEN <<>>
  ELSE (IF h[i] = "merge" THEN <<>> ELSE <<LogLine(i, h[i])>>)
       \o OnelineNoMerges(h, i - 1)

\* git log fails in a repository without commits and the catch returns [];
\* otherwise output.trim().split('\n'), which is [''] for an empty output
getGitLogs(h) ==
  IF h = <<>> THEN <<>>
  ELSE LET lines == OnelineNoMerges(h, Len(h))
       IN  IF lines = <<>> THEN << <<>> >> ELSE lines

\* whether `git show <commit>` finds a commit
Resolves(h, commit) == \E i \in 1..Len(h) : HashOf(i) = commit

\* the files `git show <commit> --name-only` lists
ChangedFiles(commit) ==
  IF commit[HashEnd] \in {"1", "3", "5", "7"}
  THEN <<"index.js", "package-lock.json">>
  ELSE <<"README.md">>

ignoreFiles == {"package-lock.json"}

---------------------------------------------------------------------------
(* Building steps: makeSteps, getGitDiff *)

Marker == <<"t", "u", "t", "u", "r", "e", ":">>

\* a slip: the message taken from the blank after the hash on
msgOfFromBlank(log) == Slice(log, HashEnd, Len(log))

\* the message of a log line
msgOf(log) == Slice(log, MsgStart, Len(log))

\* a slip: the log filtered but left newest first
keptLogsUnreversed(logs) ==
  Filter(logs, {log \in Range(logs) : ~StartsWith(Slice(log, MsgStart, Len(log)), Marker)})

\* logs.reverse().filter(log => !log.slice(8, log.length).startsWith('tuture:'))
keptLogs(logs) ==
  LET rev == Reverse(logs)
  IN  Filter(rev, {log \in Range(rev) : ~StartsWith(msgOf(log), Marker)})

\* logs.map(log => log.slice(0, 7))
commitsOf(logs) == [i \in 1..Len(logs) |-> Slice(logs[i], 0, HashEnd)]

\* the changed files that match no ignore pattern, each as { file }
getGitDiff(commit) ==
  LET files == ChangedFiles(commit)
      kept  == Filter(files, Range(files) \ ignoreFiles)
  IN  [i \in 1..Len(kept) |-> [file |-> kept[i]]]

\* the object the idx-th promise of makeSteps resolves to, diff being what
\* getGitDiff resolved to
stepOf(log, commit, diff) == [name |-> msgOf(log), commit |-> commit, diff |-> diff]

---------------------------------------------------------------------------
(* Reconciliation: the forEach loops of reloadTuture *)

\* a slip: the first old step with the commit taken, not the last
RECURSIVE scanOldFirst(_, _, _, _)
scanOldFirst(currentStep, oldSteps, j, slot) ==
  IF j > Len(oldSteps) THEN slot
  ELSE IF currentStep.commit = oldSteps[j].commit THEN oldSteps[j]
       ELSE scanOldFirst(currentStep, oldSteps, j + 1, slot)

\* tuture.steps.forEach(step => { if (currentStep.commit === step.commit)
\*   currentSteps[index] = step; }), from old step j on
RECURSIVE scanOld(_, _, _, _)
scanOld(currentStep, oldSteps, j, slot) ==
  IF j > Len(oldSteps) THEN slot
  ELSE scanOld(currentStep, oldSteps, j + 1,
               IF currentStep.commit = oldSteps[j].commit THEN oldSteps[j] ELSE slot)

\* a slip: the old step taken over, but with the freshly fetched file list
reconcileFreshDiff(currentSteps, oldSteps) ==
  [i \in 1..Len(currentSteps) |->
     [scanOld(currentSteps[i], oldSteps, 1, currentSteps[i])
        EXCEPT !.diff = currentSteps[i].diff]]

\* a slip: the steps found in the old tutorial first, the new ones after them
reconcileNewLast(currentSteps, oldSteps) ==
  LET merged == [i \in 1..Len(currentSteps) |->
                   scanOld(currentSteps[i], oldSteps, 1, currentSteps[i])]
      known  == {merged[i] : i \in {k \in 1..Len(currentSteps) :
                   \E j \in 1..Len(oldSteps) : oldSteps[j].commit = currentSteps[k].commit}}
  IN  Filter(merged, known) \o Filter(merged, Range(merged) \ known)

\* a slip: the fresh steps appended to the old ones
reconcileAppended(currentSteps, oldSteps) == oldSteps \o currentSteps

reconcile(currentSteps, oldSteps) ==
  [i \in 1..Len(currentSteps) |-> scanOld(currentSteps[i], oldSteps, 1, currentSteps[i])]

---------------------------------------------------------------------------
(* Files *)

NoFile == <<>>

\* a slip: || for &&
ifEitherExists(d) == d.dir \/ d.yml # NoFile

\* fs.existsSync(tutureRoot) && fs.existsSync('tuture.yml')
ifTutureSuiteExists(d) == d.dir /\ d.yml # NoFile

\* await fs.remove('tuture.yml')
removeYml(d) == [d EXCEPT !.yml = NoFile]

\* await fs.remove(tutureRoot): the directory and the files in it
removeRoot(d) == [d EXCEPT !.dir = FALSE, !.json = NoFile, !.diff = NoFile]

removeTutureSuite(d) == removeRoot(removeYml(d))

\* fs.mkdirSync(tutureRoot)
mkdirRoot(d) == [d EXCEPT !.dir = TRUE]

\* the two writeFileSync calls of writeTuture; js-yaml and JSON each give the
\* object back when the file is loaded, so a file holds the object
writeJson(d, tuture) == [d EXCEPT !.json = <<tuture>>]
writeYml(d, tuture) == [d EXCEPT !.yml = <<tuture>>]
writeTuture(d, tuture) == writeYml(writeJson(d, tuture), tuture)

\* .gitignore is a sequence of lines
ignoreRules == <<"# Tuture supporting files", "", ".tuture">>

\* text.includes('.tuture'), line by line
MentionsDotTuture == {".tuture", ".tuture/"}

\* a slip: the rules appended without looking for '.tuture'
appendGitignoreAlways(d) ==
  IF d.gitignore = NoFile THEN [d EXCEPT !.gitignore = <<ignoreRules>>]
  ELSE [d EXCEPT !.gitignore = <<d.gitignore[1] \o <<"">> \o ignoreRules>>]

appendGitignore(d) ==
  IF d.gitignore = NoFile THEN [d EXCEPT !.gitignore = <<ignoreRules>>]
  ELSE IF Range(d.gitignore[1]) \cap MentionsDotTuture = {}
       THEN [d EXCEPT !.gitignore = <<d.gitignore[1] \o <<"">> \o ignoreRules>>]
       ELSE d

\* the hook file is a sequence of pieces of text, 'tuture reload' being one
getGitHook == <<"#!/bin/sh\n", "/usr/lib/node_modules/tuture/bin/", "tuture reload", "\n">>

appendGitHook(d) ==
  IF d.hook = NoFile THEN [d EXCEPT !.hook = <<getGitHook>>]
  ELSE IF "tuture reload" \notin Range(d.hook[1])
       THEN [d EXCEPT !.hook = <<d.hook[1] \o getGitHook>>]
       ELSE d

\* hook.replace('tuture reload', ''): the first occurrence only
RECURSIVE dropFirst(_, _)
dropFirst(s, x) ==
  IF s = <<>> THEN <<>>
  ELSE IF Head(s) = x THEN Tail(s) ELSE <<Head(s)>> \o dropFirst(Tail(s), x)

removeGitHook(d) ==
  IF d.hook = NoFile THEN d
  ELSE IF d.hook[1] = getGitHook THEN [d EXCEPT !.hook = NoFile]
       ELSE [d EXCEPT !.hook = <<dropFirst(d.hook[1], "tuture reload")>>]

\* .tuture/diff.json as storeDiff writes it: one entry per commit, in order
writeDiff(d, commits) == [d EXCEPT !.diff = <<commits>>]

---------------------------------------------------------------------------
(* Messages and exit *)

fatal(text) == [level |-> "fatal", text |-> text]
success(text) == [level |-> "success", text |-> text]

NotEnded == <<>>
Exited(code) == <<code>>

NoFetches ==
  [logs |-> <<>>, commits |-> <<>>, storing |-> 0, storeRejected |-> FALSE,
   sum |-> <<>>, res |-> <<>>, outOfOrder |-> FALSE, err |-> ""]

Idle ==
  /\ cmd = "none"
  /\ pc = "idle"

\* the invocation's own state when none runs
Cleared ==
  /\ cmd' = "none"
  /\ pc' = "idle"
  /\ fetches' = NoFetches
  /\ loaded' = <<>>
  /\ built' = <<>>
  /\ gitRuns' = 0
  /\ out' = <<>>
  /\ exit' = NotEnded
  /\ snap' = <<>>

\* process.exit(code), or the process ending on its own with that status
Ends(code) ==
  /\ pc' = "exited"
  /\ exit' = Exited(code)

\* message.trim().replace('fatal: ', '')
stripFatal(text) == IF text = "fatal: git show failed" THEN "git show failed" ELSE text

\* a slip: the message printed, the status 0
errAndExitZero(msgs, text) ==
  /\ out' = Append(msgs, fatal(stripFatal(text)))
  /\ Ends(0)

\* errAndExit(message)
errAndExit(msgs, text) ==
  /\ out' = Append(msgs, fatal(stripFatal(text)))
  /\ Ends(1)

\* a rejected promise nobody handles: a warning on Node.js up to 14, where the
\* process goes on at thenPc; an uncaught exception, ending the process with
\* status 1, from Node.js 15 on
unhandledRejection(msgs, text, thenPc) ==
  IF nodeMode = "throw"
  THEN /\ out' = Append(msgs, [level |-> "uncaught", text |-> text])
       /\ Ends(1)
  ELSE /\ out' = Append(msgs, [level |-> "warning", text |-> text])
       /\ pc' = thenPc
       /\ exit' = exit

---------------------------------------------------------------------------
(* The state before any command *)

userIgnore == <<"node_modules">>
userHook == <<"#!/bin/sh\n", "npm test\n">>

NoSuite(gi, hk) ==
  [yml |-> NoFile, dir |-> FALSE, json |-> NoFile, diff |-> NoFile,
   gitignore |-> gi, hook |-> hk]

InitIdle ==
  /\ cmd = "none"
  /\ pc = "idle"
  /\ fetches = NoFetches
  /\ loaded = <<>>
  /\ built = <<>>
  /\ gitRuns = 0
  /\ out = <<>>
  /\ exit = NotEnded
  /\ snap = <<>>

\* a directory that is no repository yet, or a repository with a .gitignore
\* and a post-commit hook of the user's
Init ==
  /\ history = <<>>
  /\ dotGit \in BOOLEAN
  /\ disk = IF dotGit THEN NoSuite(<<userIgnore>>, <<userHook>>) ELSE NoSuite(NoFile, NoFile)
  /\ InitIdle
  /\ nodeMode \in {"warn", "throw"}
  /\ round = 0

---------------------------------------------------------------------------
(* What happens between invocations *)

\* git commit: the root commit is no merge
Commit(kind) ==
  /\ Idle
  /\ dotGit
  /\ Len(history) < MaxCommits
  /\ (history = <<>> => kind # "merge")
  /\ history' = Append(history, kind)
  /\ UNCHANGED <<dotGit, disk, cmd, pc, fetches, loaded, built, gitRuns, out,
                 exit, snap, nodeMode, round>>

\* the user's explanations of a step and of its files
withExplain(step) ==
  [name |-> step.name, commit |-> step.commit, explain |-> "user note",
   diff |-> [j \in 1..Len(step.diff) |->
               [file |-> step.diff[j].file, explain |-> "file note"]]]

\* the user writes the explanations of step i into tuture.yml
EditExplain(i) ==
  /\ Idle
  /\ disk.yml # NoFile
  /\ i \in 1..Len(disk.yml[1].steps)
  /\ "explain" \notin DOMAIN disk.yml[1].steps[i]
  /\ disk' = [disk EXCEPT !.yml =
                <<[disk.yml[1] EXCEPT !.steps[i] = withExplain(disk.yml[1].steps[i])]>>]
  /\ UNCHANGED <<history, dotGit, cmd, pc, fetches, loaded, built, gitRuns, out,
                 exit, snap, nodeMode, round>>

\* the invocation is over; the next one starts afresh
Return ==
  /\ pc = "exited"
  /\ Cleared
  /\ UNCHANGED <<history, dotGit, disk, nodeMode, round>>

---------------------------------------------------------------------------
(* getSteps: the fetches and what follows them *)

\* makeSteps up to its return: git log, then a `git show` per commit spawned
\* by storeDiff, then a `git show --name-only` per commit spawned by getGitDiff
spawnFetches(h) ==
  LET logs == keptLogs(getGitLogs(h))
      n    == Len(logs)
  IN  [logs |-> logs, commits |-> commitsOf(logs),
       storing |-> n, storeRejected |-> FALSE, sum |-> [i \in 1..n |-> "run"],
       res |-> [i \in 1..n |-> <<>>], outOfOrder |-> FALSE, err |-> ""]

Running(f) ==
  f.storing > 0 \/ \E i \in 1..Len(f.commits) : f.sum[i] = "run"

\* a slip: the results taken in the opposite order
resolvedStepsMirrored(f) ==
  [i \in 1..Len(f.logs) |-> stepOf(f.logs[i], f.commits[i], f.res[Len(f.logs) + 1 - i])]

\* Promise.all(resArr): step i holds what the i-th getGitDiff resolved to
resolvedSteps(f) ==
  [i \in 1..Len(f.logs) |-> stepOf(f.logs[i], f.commits[i], f.res[i])]

\* every fetch of f closed with status 0
fetched(f) ==
  [f EXCEPT !.storing = 0,
            !.sum = [i \in 1..Len(f.commits) |-> "ok"],
            !.res = [i \in 1..Len(f.commits) |-> getGitDiff(f.commits[i])]]

IOFaults == {"ok", "json", "yml", "gitignore", "hook"}

\* initTuture after getSteps: writeTuture, appendGitignore, appendGitHook,
\* the call that io names throwing
initMain(d, tuture, steps, io) ==
  LET t == [meta |-> tuture.meta, steps |-> steps]
      created == <<success("tuture.yml is created!")>>
  IN  CASE io = "json" ->
             [disk |-> d, msgs |-> <<>>, ok |-> FALSE, err |-> "EIO tuture.json"]
        [] io = "yml" ->
             [disk |-> writeJson(d, t), msgs |-> <<>>, ok |-> FALSE, err |-> "EIO tuture.yml"]
        [] io = "gitignore" ->
             [disk |-> writeTuture(d, t), msgs |-> created, ok |-> FALSE,
              err |-> "EIO .gitignore"]
        [] io = "hook" ->
             [disk |-> appendGitignore(writeTuture(d, t)), msgs |-> created,
              ok |-> FALSE, err |-> "EIO post-commit"]
        [] OTHER ->
             [disk |-> appendGitHook(appendGitignore(writeTuture(d, t))),
              msgs |-> created, ok |-> TRUE, err |-> ""]

\* reloadTuture after getSteps: the reconciliation and writeTuture
reloadMain(d, tuture, steps, io) ==
  LET t == [tuture EXCEPT !.steps = reconcile(steps, tuture.steps)]
  IN  CASE io = "json" ->
             [disk |-> d, msgs |-> <<>>, ok |-> FALSE, err |-> "EIO tuture.json"]
        [] io = "yml" ->
             [disk |-> writeJson(d, t), msgs |-> <<>>, ok |-> FALSE, err |-> "EIO tuture.yml"]
        [] OTHER ->
             [disk |-> writeTuture(d, t), msgs |-> <<success("Reload complete!")>>,
              ok |-> TRUE, err |-> ""]

\* the invocation goes on once getSteps has returned steps: the rest of
\* initTuture or of reloadTuture runs before any other event
afterSteps(c, d, msgs, f, tuture, steps, io) ==
  LET m == Append(msgs, success("Diff files are created!"))
      r == IF c = "init" THEN initMain(d, tuture, steps, io)
           ELSE reloadMain(d, tuture, steps, io)
  IN  /\ built' = <<steps>>
      /\ disk' = r.disk
      /\ fetches' = [f EXCEPT !.err = r.err]
      /\ IF r.ok
         THEN /\ out' = m \o r.msgs
              /\ pc' = "draining"
              /\ exit' = exit
         ELSE IF c = "init"
              THEN /\ out' = m \o r.msgs      \* caught: removeTutureSuite is next
                   /\ pc' = "rollbackYml"
                   /\ exit' = exit
              ELSE unhandledRejection(m \o r.msgs, r.err, "draining")

\* getSteps called with the suite directory in place: with no commit to fetch
\* diff.json is written and the invocation goes on at once
startSteps(c, d, msgs, tuture, io) ==
  LET f == spawnFetches(history)
  IN  IF Len(f.commits) = 0
      THEN afterSteps(c, writeDiff(d, <<>>), msgs, f, tuture, <<>>, io)
      ELSE /\ io = "ok"
           /\ disk' = d
           /\ fetches' = f
           /\ built' = <<>>
           /\ out' = msgs
           /\ pc' = "fetching"
           /\ exit' = exit

---------------------------------------------------------------------------
(* tuture init *)

\* a slip: a suite already there treated as an error
alreadyInitializedIsFatal ==
  /\ out' = <<fatal("Tuture has already been initialized!")>>
  /\ Ends(1)

\* the suite is there already: a success message and process.exit(0)
alreadyInitialized ==
  /\ out' = <<success("Tuture has already been initialized!")>>
  /\ Ends(0)

\* git subprocesses of one getSteps: git log and two git show per commit
stepsRuns == 1 + 2 * Len(keptLogs(getGitLogs(history)))

\* initTuture up to the point where it waits for the fetches. yes: --yes;
\* avail: git is on the PATH; answer: the reply to "do you want to initialize
\* one?"; initOk: git init exits 0; meta: the reply to the metadata questions
InitTuture(yes, avail, answer, initOk, meta, io) ==
  /\ Idle
  /\ disk.hook # NoFile => Len(disk.hook[1]) <= MaxHookLen
  /\ cmd' = "init"
  /\ snap' = <<disk>>
  /\ UNCHANGED <<history, nodeMode, round>>
  /\ IF ifTutureSuiteExists(disk) THEN
       /\ alreadyInitialized
       /\ io = "ok"
       /\ UNCHANGED <<dotGit, disk, fetches, loaded, built, gitRuns>>
     ELSE IF ~avail THEN
       /\ errAndExit(<<>>, "Git is not installed on your machine!")
       /\ io = "ok"
       /\ UNCHANGED <<dotGit, disk, fetches, loaded, built, gitRuns>>
     ELSE IF ~dotGit /\ ~yes /\ answer # "yes" THEN
       /\ errAndExit(<<>>, "Aborted!")
       /\ io = "ok"
       /\ UNCHANGED <<dotGit, disk, fetches, loaded, built, gitRuns>>
     ELSE IF ~dotGit /\ ~initOk THEN
       \* runGitCommand(['init']) rejects and nothing catches it
       /\ unhandledRejection(<<>>, "git init failed", "draining")
       /\ io = "ok"
       /\ gitRuns' = 1
       /\ UNCHANGED <<dotGit, disk, fetches, loaded, built>>
     ELSE
       LET msgs == IF dotGit THEN <<>> ELSE <<success("Git repo is initialized!")>>
           inits == IF dotGit THEN 0 ELSE 1
       IN  /\ dotGit' = TRUE
           /\ IF ~yes /\ meta = "cancel" THEN
                /\ errAndExit(msgs, "Aborted!")
                /\ io = "ok"
                /\ gitRuns' = inits
                /\ UNCHANGED <<disk, fetches, loaded, built>>
              ELSE IF disk.dir THEN
                \* fs.mkdirSync throws EEXIST outside the try
                /\ unhandledRejection(msgs, "EEXIST .tuture", "draining")
                /\ io = "ok"
                /\ gitRuns' = inits
                /\ UNCHANGED <<disk, fetches, loaded, built>>
              ELSE
                LET tuture == [meta |-> IF yes THEN "defaults" ELSE "answers"]
                IN  /\ loaded' = <<tuture>>
                    /\ gitRuns' = inits + stepsRuns
                    /\ startSteps("init", mkdirRoot(disk), msgs, tuture, io)

\* the catch of initTuture: await removeTutureSuite(), then errAndExit
RollbackYml ==
  /\ pc = "rollbackYml"
  /\ disk' = removeYml(disk)
  /\ pc' = "rollbackRoot"
  /\ UNCHANGED <<history, dotGit, cmd, fetches, loaded, built, gitRuns, out,
                 exit, snap, nodeMode, round>>

RollbackRoot ==
  /\ pc = "rollbackRoot"
  /\ disk' = removeRoot(disk)
  /\ errAndExit(out, fetches.err)
  /\ UNCHANGED <<history, dotGit, cmd, fetches, loaded, built, gitRuns, snap,
                 nodeMode, round>>

---------------------------------------------------------------------------
(* tuture reload *)

ReloadTuture(avail, io) ==
  /\ Idle
  /\ cmd' = "reload"
  /\ snap' = <<disk>>
  /\ UNCHANGED <<history, dotGit, nodeMode, round>>
  /\ IF ~ifTutureSuiteExists(disk) THEN
       /\ errAndExit(<<>>, "Tuture has not been initialized!")
       /\ io = "ok"
       /\ UNCHANGED <<disk, fetches, loaded, built, gitRuns>>
     ELSE IF ~avail THEN
       /\ errAndExit(<<>>, "Git is not installed on your machine!")
       /\ io = "ok"
       /\ UNCHANGED <<disk, fetches, loaded, built, gitRuns>>
     ELSE IF disk.yml = NoFile THEN
       \* fs.readFileSync('tuture.yml') throws inside the try
       /\ errAndExit(<<>>, "ENOENT tuture.yml")
       /\ io = "ok"
       /\ UNCHANGED <<disk, fetches, loaded, built, gitRuns>>
     ELSE
       \* yaml.safeLoad(fs.readFileSync('tuture.yml'))
       LET tuture == disk.yml[1]
       IN  /\ io \in {"ok", "json", "yml"}
           /\ loaded' = <<tuture>>
           /\ gitRuns' = stepsRuns
           /\ startSteps("reload", disk, <<>>, tuture, io)

---------------------------------------------------------------------------
(* The git subprocesses closing *)

Fetching == cmd \in {"init", "reload"} /\ pc \notin {"idle", "exited"}

\* one of the `git show <commit>` of storeDiff closes; storing counts those
\* still running, for which of them closes makes no difference to storeDiff.
\* The promise of Promise.all(diffPromises).then(...) is held by nobody: it
\* rejects with the first failing fetch, and when the last fetch succeeds its
\* callback writes diff.json, throwing if .tuture is gone
StoreClose(ok) ==
  /\ Fetching
  /\ fetches.storing > 0
  /\ LET f == [fetches EXCEPT !.storing = @ - 1,
                              !.storeRejected = @ \/ ~ok]
     IN  /\ fetches' = f
         /\ IF ~ok /\ ~fetches.storeRejected
            THEN /\ unhandledRejection(out, "fatal: git show failed", pc)
                 /\ disk' = disk
            ELSE IF f.storing = 0 /\ ~f.storeRejected
            THEN IF disk.dir
                 THEN /\ disk' = writeDiff(disk, f.commits)
                      /\ UNCHANGED <<pc, out, exit>>
                 ELSE /\ unhandledRejection(out, "ENOENT diff.json", pc)
                      /\ disk' = disk
            ELSE UNCHANGED <<disk, pc, out, exit>>
  /\ UNCHANGED <<history, dotGit, cmd, loaded, built, gitRuns, snap, nodeMode, round>>

\* a `git show <commit> --name-only` of getGitDiff closes. While getSteps
\* waits, the first failure rejects Promise.all(resArr) and the last success
\* resolves it; outOfOrder records that a fetch resolved while the fetch of an
\* earlier commit was still running
SumClose(i, ok, io) ==
  /\ Fetching
  /\ i \in 1..Len(fetches.commits)
  /\ fetches.sum[i] = "run"
  /\ ok => Resolves(history, fetches.commits[i])
  /\ LET f == [fetches EXCEPT !.sum[i] = IF ok THEN "ok" ELSE "fail",
                              !.res[i] = IF ok THEN getGitDiff(fetches.commits[i]) ELSE <<>>,
                              !.outOfOrder =
                                 @ \/ (ok /\ \E j \in 1..(i - 1) : fetches.sum[j] = "run")]
     IN  IF pc = "fetching" /\ ~ok THEN
           /\ io = "ok"
           /\ fetches' = [f EXCEPT !.err = "fatal: git show failed"]
           /\ IF cmd = "init"
              THEN /\ pc' = "rollbackYml"
                   /\ UNCHANGED <<out, exit>>
              ELSE unhandledRejection(out, "fatal: git show failed", "draining")
           /\ UNCHANGED <<disk, built>>
         ELSE IF pc = "fetching" /\ (\A j \in 1..Len(f.commits) : f.sum[j] = "ok") THEN
           /\ (cmd = "reload" => io \in {"ok", "json", "yml"})
           /\ afterSteps(cmd, disk, out, f, loaded[1], resolvedSteps(f), io)
         ELSE
           \* getSteps waits for more, or has settled and the result is dropped
           /\ io = "ok"
           /\ fetches' = IF pc = "fetching" THEN f ELSE [fetches EXCEPT !.sum[i] = "done"]
           /\ UNCHANGED <<disk, built, pc, out, exit>>
  /\ UNCHANGED <<history, dotGit, cmd, loaded, gitRuns, snap, nodeMode, round>>

\* nothing is left to wait for: the process ends with status 0
ProcessEnd ==
  /\ Fetching
  /\ pc = "draining"
  /\ ~Running(fetches)
  /\ Ends(0)
  /\ UNCHANGED <<history, dotGit, disk, cmd, fetches, loaded, built, gitRuns, out,
                 snap, nodeMode, round>>

---------------------------------------------------------------------------
(* tuture up, tuture destroy *)

\* startRenderer. rendererOk: execSync('tuture-renderer') returns
StartRenderer(rendererOk) ==
  /\ Idle
  /\ cmd' = "up"
  /\ snap' = <<disk>>
  /\ IF ~ifTutureSuiteExists(disk) THEN
       /\ errAndExit(<<>>, "Tuture has not been initialized!")
       /\ disk' = disk
     ELSE
       LET synced == <<success("tuture.json has been synced!"),
                       success("Tuture renderer is served on http://localhost:3000.")>>
       IN  /\ disk' = writeJson(disk, disk.yml[1])
           /\ IF rendererOk
              THEN /\ out' = synced
                   /\ Ends(0)
              ELSE errAndExit(synced, "tuture-renderer is not available!")
  /\ UNCHANGED <<history, dotGit, fetches, loaded, built, gitRuns, nodeMode, round>>

\* destroyTuture. force: --force; answer: the reply to "Are you sure?"
DestroyTuture(force, answer) ==
  /\ Idle
  /\ cmd' = "destroy"
  /\ snap' = <<disk>>
  /\ IF ~ifTutureSuiteExists(disk) THEN
       /\ errAndExit(<<>>, "No Tuture tutorial to destroy!")
       /\ disk' = disk
     ELSE IF ~force /\ answer # "yes" THEN
       /\ errAndExit(<<>>, "Aborted!")
       /\ disk' = disk
     ELSE
       /\ disk' = removeTutureSuite(removeGitHook(disk))
       /\ out' = <<success("Tuture suite has been destroyed!")>>
       /\ Ends(0)
  /\ UNCHANGED <<history, dotGit, fetches, loaded, built, gitRuns, nodeMode, round>>

---------------------------------------------------------------------------
(* The commands on a repository *)

Answers == {"yes", "no", "cancel"}

Next ==
  \/ \E kind \in {"feat", "tuture"} : Commit(kind)
  \/ EditExplain(1)
  \/ \E yes, avail, initOk \in BOOLEAN, answer \in Answers,
        meta \in {"answers", "cancel"}, io \in IOFaults :
       InitTuture(yes, avail, answer, initOk, meta, io)
  \/ \E avail \in BOOLEAN, io \in IOFaults : ReloadTuture(avail, io)
  \/ \E ok \in BOOLEAN : StoreClose(ok)
  \/ \E i \in 1..MaxCommits, ok \in BOOLEAN, io \in IOFaults : SumClose(i, ok, io)
  \/ RollbackYml
  \/ RollbackRoot
  \/ ProcessEnd
  \/ \E rendererOk \in BOOLEAN : StartRenderer(rendererOk)
  \/ \E force \in BOOLEAN, answer \in Answers : DestroyTuture(force, answer)
  \/ Return

Spec == Init /\ [][Next]_vars

---------------------------------------------------------------------------
(* Reload as a whole, on any history and any hand-edited tuture.yml *)

SeqsUpTo(S, n) == UNION {[1..k -> S] : k \in 0..n}

\* the root commit is no merge
Histories(n) == {h \in SeqsUpTo(Kinds, n) : h = <<>> \/ h[1] # "merge"}

\* steps as a user may have left them in tuture.yml
oldEdited(commit) ==
  [name |-> <<"m", "y">>, commit |-> commit, explain |-> "user note",
   diff |-> <<[file |-> "old.js", explain |-> "file note"]>>]

oldPlain(commit) ==
  [name |-> MsgOf("fix"), commit |-> commit, diff |-> <<[file |-> "README.md"]>>]

OldPool ==
  {oldEdited(HashOf(i)) : i \in 1..MaxHistory + 1} \cup {oldPlain(HashOf(1))}

Initialized(steps) ==
  [yml |-> <<[meta |-> "defaults", steps |-> steps]>>, dir |-> TRUE,
   json |-> <<[meta |-> "defaults", steps |-> <<>>]>>, diff |-> <<<<>>>>,
   gitignore |-> <<userIgnore \o <<"">> \o ignoreRules>>,
   hook |-> <<userHook \o getGitHook>>]

InitReload ==
  /\ history \in Histories(MaxHistory)
  /\ dotGit = TRUE
  /\ \E old \in SeqsUpTo(OldPool, MaxOldSteps) : disk = Initialized(old)
  /\ InitIdle
  /\ nodeMode = "warn"
  /\ round = 0

\* reloadTuture from its first line to its last, every fetch and every write
\* succeeding
ReloadAll ==
  /\ Idle
  /\ round < MaxRounds
  /\ ifTutureSuiteExists(disk)
  /\ LET f     == fetched(spawnFetches(history))
         steps == resolvedSteps(f)
         r     == reloadMain(writeDiff(disk, f.commits), disk.yml[1], steps, "ok")
     IN  /\ disk' = r.disk
         /\ built' = <<steps>>
         /\ fetches' = f
         /\ loaded' = <<disk.yml[1]>>
         /\ out' = <<success("Diff files are created!")>> \o r.msgs
  /\ gitRuns' = stepsRuns
  /\ snap' = <<disk>>
  /\ exit' = Exited(0)
  /\ round' = round + 1
  /\ UNCHANGED <<history, dotGit, cmd, pc, nodeMode>>

SpecReload == InitReload /\ [][ReloadAll]_vars

---------------------------------------------------------------------------
(* The commands one after the other, each as a whole and with every fetch  *)
(* and every write succeeding, on files as a user may have left them       *)

\* a tuture.yml the user emptied, one that is no YAML, one without steps
EmptyYml == [text |-> ""]
GarbledYml == [text |-> "steps: ["]
NoStepsYml == [meta |-> "defaults"]
YmlPool == {EmptyYml, GarbledYml, NoStepsYml}

\* what yaml.safeLoad gives for an empty document
Undefined == [undefined |-> TRUE]

\* yaml.safeLoad(fs.readFileSync('tuture.yml')): throws on text that is no YAML
safeLoadThrows(content) == content = GarbledYml
safeLoad(content) == IF content = EmptyYml THEN Undefined ELSE content

\* .gitignore and post-commit as the user has them before the first init
IgnorePool == {NoFile, <<userIgnore>>, <<userIgnore \o <<".tuture/">>>>}
HookPool == {NoFile, <<userHook>>}

InitFiles ==
  /\ history \in Histories(MaxCommits)
  /\ dotGit = TRUE
  /\ \E gi \in IgnorePool, hk \in HookPool : disk = NoSuite(gi, hk)
  /\ InitIdle
  /\ nodeMode \in {"warn", "throw"}
  /\ round = 0

Between == pc \in {"idle", "exited"} /\ round < MaxCycles

\* initTuture --yes from its first line to its last
InitAll ==
  /\ Between
  /\ ~ifTutureSuiteExists(disk)
  /\ ~disk.dir
  /\ LET f      == fetched(spawnFetches(history))
         steps  == resolvedSteps(f)
         tuture == [meta |-> "defaults"]
         r      == initMain(writeDiff(mkdirRoot(disk), f.commits), tuture, steps, "ok")
     IN  /\ disk' = r.disk
         /\ built' = <<steps>>
         /\ fetches' = f
         /\ loaded' = <<tuture>>
         /\ out' = <<success("Diff files are created!")>> \o r.msgs
  /\ cmd' = "init"
  /\ Ends(0)
  /\ gitRuns' = stepsRuns
  /\ snap' = <<disk>>
  /\ round' = round + 1
  /\ UNCHANGED <<history, dotGit, nodeMode>>

\* destroyTuture --force from its first line to its last
DestroyAll ==
  /\ Between
  /\ ifTutureSuiteExists(disk)
  /\ disk' = removeTutureSuite(removeGitHook(disk))
  /\ cmd' = "destroy"
  /\ out' = <<success("Tuture suite has been destroyed!")>>
  /\ Ends(0)
  /\ fetches' = NoFetches
  /\ loaded' = <<>>
  /\ built' = <<>>
  /\ gitRuns' = 0
  /\ snap' = <<disk>>
  /\ round' = round + 1
  /\ UNCHANGED <<history, dotGit, nodeMode>>

\* between two invocations the user replaces the text of tuture.yml
UserYml(content) ==
  /\ pc \in {"idle", "exited"}
  /\ disk.yml # NoFile
  /\ "steps" \in DOMAIN disk.yml[1]
  /\ disk' = [disk EXCEPT !.yml = <<content>>]
  /\ Cleared
  /\ UNCHANGED <<history, dotGit, nodeMode, round>>

\* the rejection of reloadTuture's promise, which nothing in reloadTuture
\* handles: the process ends there, or with status 0 once nothing is left to do
rejected(msgs, text) ==
  /\ out' = Append(msgs, [level |-> IF nodeMode = "throw" THEN "uncaught" ELSE "warning",
                          text |-> text])
  /\ Ends(IF nodeMode = "throw" THEN 1 ELSE 0)

\* reloadTuture from its first line to its last. readable: fs.readFileSync
\* of tuture.yml returns
ReloadOne(readable) ==
  /\ Between
  /\ ifTutureSuiteExists(disk)
  /\ cmd' = "reload"
  /\ snap' = <<disk>>
  /\ round' = round + 1
  /\ UNCHANGED <<history, dotGit, nodeMode>>
  /\ IF ~readable \/ safeLoadThrows(disk.yml[1]) THEN
       \* the catch around the load
       /\ errAndExit(<<>>, IF readable THEN "YAMLException" ELSE "EACCES tuture.yml")
       /\ fetches' = [NoFetches EXCEPT !.err = IF readable THEN "YAMLException"
                                                ELSE "EACCES tuture.yml"]
       /\ loaded' = <<>>
       /\ built' = <<>>
       /\ gitRuns' = 0
       /\ disk' = disk
     ELSE
       LET tuture == safeLoad(disk.yml[1])
           f      == fetched(spawnFetches(history))
           steps  == resolvedSteps(f)
           d      == writeDiff(disk, f.commits)
           msgs   == <<success("Diff files are created!")>>
       IN  /\ loaded' = <<tuture>>
           /\ built' = <<steps>>
           /\ gitRuns' = stepsRuns
           /\ IF tuture = Undefined THEN
                \* tuture.steps of undefined: a TypeError
                /\ rejected(msgs, "TypeError")
                /\ fetches' = [f EXCEPT !.err = "TypeError"]
                /\ disk' = d
              ELSE IF "steps" \notin DOMAIN tuture THEN
                IF steps # <<>> THEN
                  \* tuture.steps.forEach of undefined: a TypeError
                  /\ rejected(msgs, "TypeError")
                  /\ fetches' = [f EXCEPT !.err = "TypeError"]
                  /\ disk' = d
                ELSE
                  \* no callback runs; tuture.steps = currentSteps adds the key
                  /\ disk' = writeTuture(d, [meta |-> tuture.meta, steps |-> steps])
                  /\ out' = Append(msgs, success("Reload complete!"))
                  /\ Ends(0)
                  /\ fetches' = f
              ELSE
                LET r == reloadMain(d, tuture, steps, "ok")
                IN  /\ disk' = r.disk
                    /\ out' = msgs \o r.msgs
                    /\ Ends(0)
                    /\ fetches' = f

NextFiles ==
  \/ InitAll
  \/ DestroyAll
  \/ \E content \in YmlPool : UserYml(content)
  \/ \E readable \in BOOLEAN : ReloadOne(readable)

SpecFiles == InitFiles /\ [][NextFiles]_vars

---------------------------------------------------------------------------
(* Properties of a reload *)

Reloaded == round >= 1
Old == snap[1].yml[1].steps       \* the steps reload found in tuture.yml
Fresh == built[1]                 \* the steps getSteps computed
Written == disk.yml[1].steps      \* the steps reload wrote

\* the place in the history of the commit git abbreviates to this hash
PlaceOf(commit) == CHOOSE i \in 1..Len(Digit) : HashOf(i) = commit

\* a commit git log --no-merges lists and makeSteps is meant to keep
Eligible(kind) == kind \notin {"merge", "tuture"}

ExplainOf(step) == IF "explain" \in DOMAIN step THEN step.explain ELSE ""

NoExplainText(step) == "explain" \notin DOMAIN step \/ step.explain = ""

\* C1: for every hash that is both in the saved tutorial and among the fresh
\* steps, the step reload writes for it is an old step with that hash, whole:
\* name, explain, file list and per-file explains, whatever the fresh file list
C1_OldStepKeptWhole ==
  Reloaded =>
    \A i \in 1..Len(Fresh) :
      (\E j \in 1..Len(Old) : Old[j].commit = Fresh[i].commit) =>
        /\ i <= Len(Written)
        /\ \E j \in 1..Len(Old) :
             Old[j].commit = Fresh[i].commit /\ Written[i] = Old[j]

C1_Witness ==
  /\ Reloaded
  /\ \E i \in 1..Len(Fresh), j \in 1..Len(Old) :
       /\ Old[j].commit = Fresh[i].commit
       /\ Old[j].diff # Fresh[i].diff
       /\ ExplainOf(Old[j]) = "user note"
       /\ Written[i] = Old[j]

\* C2: a second reload with no commit in between leaves tuture.yml and
\* tuture.json as the first reload wrote them
C2_ReloadIdempotent ==
  round >= 2 => disk.yml = snap[1].yml /\ disk.json = snap[1].json

C2_Witness ==
  /\ round >= 2
  /\ Len(Written) >= 2
  /\ \E i, j \in 1..Len(Written) :
       "explain" \in DOMAIN Written[i] /\ "explain" \notin DOMAIN Written[j]

\* C3: on a history of N commits without merges and without reserved messages
\* getSteps returns N steps, step i carrying the hash and the message of the
\* i-th oldest commit, no hash twice; on an empty history it returns the empty
\* list and the invocation does not fail
C3_OneStepPerCommit ==
  (Reloaded /\ \A i \in 1..Len(history) : Eligible(history[i])) =>
    /\ Len(Fresh) = Len(history)
    /\ \A i \in 1..Len(Fresh) :
         Fresh[i].commit = HashOf(i) /\ Fresh[i].name = MsgOf(history[i])
    /\ \A i, j \in 1..Len(Fresh) : i # j => Fresh[i].commit # Fresh[j].commit
    /\ (history = <<>> => Fresh = <<>> /\ exit = Exited(0))

C3_Witness ==
  /\ Reloaded
  /\ Len(history) = MaxHistory
  /\ \A i \in 1..Len(history) : Eligible(history[i])
  /\ Len(Fresh) = MaxHistory
  /\ Fresh[1].commit = HashOf(1)

\* C4 as stated: every commit of the history without a step in the old
\* tutorial has a step after the reload, without explain text, placed after
\* the steps of the commits before it and before those of the commits after it
C4_EveryCommitGetsAStep ==
  Reloaded =>
    \A i \in 1..Len(history) :
      (\A j \in 1..Len(Old) : Old[j].commit # HashOf(i)) =>
        \E p \in 1..Len(Written) :
          /\ Written[p].commit = HashOf(i)
          /\ NoExplainText(Written[p])
          /\ \A q \in 1..Len(Written) : q < p <=> PlaceOf(Written[q].commit) < i

\* C4, amended: the same of every commit that is no merge and whose message
\* does not begin with 'tuture:'; the new step has no explain key at all
C4_EveryListedCommitGetsAStep ==
  Reloaded =>
    \A i \in 1..Len(history) :
      (Eligible(history[i]) /\ \A j \in 1..Len(Old) : Old[j].commit # HashOf(i)) =>
        \E p \in 1..Len(Written) :
          /\ Written[p].commit = HashOf(i)
          /\ "explain" \notin DOMAIN Written[p]
          /\ \A q \in 1..Len(Written) : q < p <=> PlaceOf(Written[q].commit) < i

C4_Witness ==
  /\ Reloaded
  /\ Len(history) = 3
  /\ \A i \in 1..3 : Eligible(history[i])
  /\ {Old[j].commit : j \in 1..Len(Old)} = {HashOf(1), HashOf(3)}
  /\ Len(Written) = 3
  /\ Written[2].commit = HashOf(2)
  /\ "explain" \notin DOMAIN Written[2]
  /\ ExplainOf(Written[1]) = "user note"
  /\ ExplainOf(Written[3]) = "user note"

\* C5: no commit whose message begins with 'tuture:' has a step, every other
\* commit git log lists has one, and the steps are in the order of the
\* commits; the history A 'feat: add x', B 'tuture: housekeeping', C 'fix: bug'
\* gives the steps A, C
C5_ReservedNeverAStep ==
  Reloaded =>
    /\ \A i \in 1..Len(history) :
         (\E k \in 1..Len(Fresh) : Fresh[k].commit = HashOf(i)) <=> Eligible(history[i])
    /\ \A p, q \in 1..Len(Fresh) :
         p < q => PlaceOf(Fresh[p].commit) < PlaceOf(Fresh[q].commit)
    /\ (history = <<"feat", "tuture", "fix">> =>
          Fresh = << [name |-> MsgOf("feat"), commit |-> HashOf(1),
                      diff |-> <<[file |-> "index.js"]>>],
                     [name |-> MsgOf("fix"), commit |-> HashOf(3),
                      diff |-> <<[file |-> "index.js"]>>] >>)

C5_Witness ==
  /\ Reloaded
  /\ history = <<"feat", "tuture", "fix">>
  /\ Len(Fresh) = 2
  /\ Fresh[2].commit = HashOf(3)

---------------------------------------------------------------------------
(* Properties of the commands *)

Before == snap[1]                 \* the files as the invocation found them

Absent(d) == d.yml = NoFile \/ ~d.dir

Chronological(steps) ==
  \A p, q \in 1..Len(steps) :
    p < q => PlaceOf(steps[p].commit) < PlaceOf(steps[q].commit)

\* C6: the steps of every tuture.yml and tuture.json on disk are in the order
\* of their commits, oldest first, and through a reload every step that was
\* in tuture.yml keeps its place and its commit hash
C6_ChronologicalAndStable ==
  /\ disk.yml # NoFile => Chronological(disk.yml[1].steps)
  /\ disk.json # NoFile => Chronological(disk.json[1].steps)
  /\ (cmd = "reload" /\ Before.yml # NoFile /\ disk.yml # NoFile) =>
       \A j \in 1..Len(Old) :
         j <= Len(Written) /\ Written[j].commit = Old[j].commit

C6_Witness ==
  /\ cmd = "reload"
  /\ pc = "exited"
  /\ exit = Exited(0)
  /\ Before.yml # NoFile
  /\ Len(Old) = 1
  /\ ExplainOf(Old[1]) = "user note"
  /\ Len(Written) = 2
  /\ Written[1] = Old[1]
  /\ Written[2].commit = HashOf(Len(history))

\* C7: a reload that finds tuture.yml or .tuture missing has ended with
\* status 1 and the one fatal message, has spawned no git and has left every
\* file as it was
C7_ReloadNeedsSuite ==
  (cmd = "reload" /\ Absent(Before)) =>
    /\ pc = "exited"
    /\ exit = Exited(1)
    /\ out = <<fatal("Tuture has not been initialized!")>>
    /\ gitRuns = 0
    /\ disk = Before

C7_Witness ==
  /\ cmd = "reload"
  /\ Before.yml = NoFile
  /\ Before.gitignore # NoFile
  /\ exit = Exited(1)
  /\ disk = Before

\* C8: a destroy that finds no suite has ended with status 1 and a fatal
\* message and has left tuture.yml, .tuture, .gitignore and the hook as they
\* were
C8_DestroyNeedsSuite ==
  (cmd = "destroy" /\ Absent(Before)) =>
    /\ pc = "exited"
    /\ exit = Exited(1)
    /\ out = <<fatal("No Tuture tutorial to destroy!")>>
    /\ disk = Before

C8_Witness ==
  /\ cmd = "destroy"
  /\ Absent(Before)
  /\ Before.hook # NoFile
  /\ Before.gitignore # NoFile
  /\ exit = Exited(1)
  /\ disk.hook = Before.hook

\* C9: an init that finds the suite in place has ended with status 0 and a
\* success message, has spawned no git and has left every file as it was
C9_SecondInitNoOp ==
  (cmd = "init" /\ ~Absent(Before)) =>
    /\ pc = "exited"
    /\ exit = Exited(0)
    /\ out = <<success("Tuture has already been initialized!")>>
    /\ gitRuns = 0
    /\ disk = Before

C9_Witness ==
  /\ cmd = "init"
  /\ ~Absent(Before)
  /\ Len(Before.yml[1].steps) >= 1
  /\ ExplainOf(Before.yml[1].steps[1]) = "user note"
  /\ Before.diff # NoFile
  /\ exit = Exited(0)
  /\ disk = Before

\* C10: between invocations tuture.yml and .tuture are both there or both
\* gone
C10_SuiteWholeOrAbsent ==
  pc \in {"idle", "exited"} => (disk.dir <=> disk.yml # NoFile)

---------------------------------------------------------------------------
(* Properties of an invocation that fetches *)

\* init has passed fs.mkdirSync(tutureRoot)
InitMadeRoot == cmd = "init" /\ loaded # <<>>

\* a `git show` of storeDiff or of getGitDiff closed with a status other than 0
FetchFailed == fetches.storeRejected \/ fetches.err = "fatal: git show failed"

\* something init or reload awaited or called after mkdirSync failed: a
\* fetch, writeTuture, appendGitignore or appendGitHook
SomethingFailed == fetches.storeRejected \/ fetches.err # ""

ReportedSuccess ==
  \/ cmd = "init" /\ success("tuture.yml is created!") \in Range(out)
  \/ cmd = "reload" /\ success("Reload complete!") \in Range(out)

\* the invocation printed its last success message and nothing it called or
\* awaited after getSteps threw
Succeeded == ReportedSuccess /\ fetches.err = ""

\* C11: an init that has created .tuture and then met a failure (a fetch, a
\* metadata write, the .gitignore or the hook update) has, once its process
\* is over, neither tuture.yml nor .tuture on disk, and its status is 1
C11_FailedInitRolledBack ==
  (InitMadeRoot /\ pc = "exited" /\ SomethingFailed) =>
    /\ disk.yml = NoFile
    /\ ~disk.dir
    /\ exit = Exited(1)

SuiteFiles == {"yml", "json", "diff"}

\* the step writes a file of the suite
SuiteWrite == \E f \in SuiteFiles : disk'[f] # disk[f] /\ disk'[f] # NoFile

\* C12: a step of an init or reload that writes tuture.yml, tuture.json or
\* diff.json is taken with no git subprocess of the invocation left running,
\* and none is taken once the metadata files are written
C12_WritesAfterReads ==
  [][(cmd' \in {"init", "reload"} /\ SuiteWrite) =>
       (~Running(fetches') /\ pc # "draining")]_vars

\* C13: an init or reload one of whose fetches exited non-zero has, once its
\* process is over, a status other than 0, has left tuture.yml and tuture.json
\* as they were and has reported no success
C13_FailFast ==
  (cmd \in {"init", "reload"} /\ pc = "exited" /\ FetchFailed) =>
    /\ exit # Exited(0)
    /\ disk.yml = Before.yml
    /\ disk.json = Before.json
    /\ ~ReportedSuccess

\* C15: an init or reload that is over has left tuture.yml and tuture.json
\* both as they were or both holding the same tutorial, and after one that
\* reported success with status 0 both are there and hold the same tutorial
C15_MetadataInSync ==
  (cmd \in {"init", "reload"} /\ pc = "exited") =>
    /\ \/ disk.yml = Before.yml /\ disk.json = Before.json
       \/ disk.yml = disk.json
    /\ (ReportedSuccess /\ exit = Exited(0)) =>
         disk.yml # NoFile /\ disk.yml = disk.json

\* C16: once an init or reload that reported success is over, diff.json holds
\* one entry per step built in the invocation, keyed by the step's commit and
\* in the order of the steps
C16_DiffArchiveComplete ==
  (cmd \in {"init", "reload"} /\ pc = "exited" /\ Succeeded) =>
    /\ built # <<>>
    /\ disk.diff = <<[i \in 1..Len(built[1]) |-> built[1][i].commit]>>

\* C14: while getSteps waits, a `git show --name-only` has been spawned for
\* every commit; and the steps it returns are in the order of the commits,
\* step i with the name and the hash of the i-th commit and with the files
\* fetched for that commit, in whatever order the fetches closed
C14_StepsInCommitOrder ==
  /\ (cmd \in {"init", "reload"} /\ pc = "fetching") =>
       /\ Len(fetches.sum) = Len(fetches.commits)
       /\ gitRuns >= 1 + 2 * Len(fetches.commits)
       /\ built = <<>>
  /\ (cmd \in {"init", "reload"} /\ built # <<>>) =>
       /\ Len(built[1]) = Len(fetches.commits)
       /\ Chronological(built[1])
       /\ \A i \in 1..Len(built[1]) :
            /\ built[1][i].commit = fetches.commits[i]
            /\ built[1][i].name = MsgOf(history[PlaceOf(fetches.commits[i])])
            /\ built[1][i].diff = getGitDiff(fetches.commits[i])

C14_Witness ==
  /\ cmd \in {"init", "reload"}
  /\ built # <<>>
  /\ Len(built[1]) = 2
  /\ fetches.outOfOrder
  /\ built[1][1].diff = <<[file |-> "index.js"]>>
  /\ built[1][2].diff = <<[file |-> "README.md"]>>

---------------------------------------------------------------------------
(* Properties of the hook and of .gitignore *)

\* the pieces of the generated hook that make up the injected command
InjectedCommand == {"/usr/lib/node_modules/tuture/bin/", "tuture reload"}

Occurrences(s, x) == Len(Filter(s, {x}))

\* C17: the hook holds 'tuture reload' at most once; a destroy that went
\* through has deleted a hook equal to the generated one, and has left of any
\* other hook everything but the injected command, of which nothing remains,
\* so that a hook of the user's that init appended to is the user's again
C17_HookInstallTeardown ==
  /\ disk.hook # NoFile => Occurrences(disk.hook[1], "tuture reload") <= 1
  /\ (cmd = "destroy" /\ exit = Exited(0) /\ Before.hook # NoFile) =>
       IF Before.hook[1] = getGitHook
       THEN disk.hook = NoFile
       ELSE /\ disk.hook # NoFile
            /\ Range(disk.hook[1]) \cap InjectedCommand = {}
            /\ Filter(Before.hook[1], Range(Before.hook[1]) \ InjectedCommand)
                 = Filter(disk.hook[1], Range(Before.hook[1]) \ InjectedCommand)
            /\ (Before.hook[1] = userHook \o getGitHook => disk.hook[1] = userHook)

\* how many times the lines hold the marker block
BlockCount(lines) ==
  Cardinality({i \in 1..Len(lines) :
                 i + 2 <= Len(lines) /\ SubSeq(lines, i, i + 2) = ignoreRules})

\* the file has a line with the text '.tuture' in it
Mentions(file) == Range(file[1]) \cap MentionsDotTuture # {}

\* C18 as stated: once init has succeeded .gitignore is there and holds the
\* marker block exactly once, whatever inits and destroys follow, and an init
\* leaves a .gitignore that excluded .tuture already as it was
C18_IgnoreBlockExactlyOnce ==
  /\ round >= 1 => disk.gitignore # NoFile /\ BlockCount(disk.gitignore[1]) = 1
  /\ (cmd = "init" /\ pc = "exited" /\ Before.gitignore # NoFile
        /\ Mentions(Before.gitignore)) => disk.gitignore = Before.gitignore

\* C18, amended: .gitignore holds the marker block at most once; once init
\* has succeeded it is there and has the text '.tuture' in it; an init creates
\* it as the block when it was missing, appends the block when it had no
\* '.tuture' in it, and leaves it as it was, without a block, when it had
C18_IgnoreBlockAtMostOnce ==
  /\ disk.gitignore # NoFile => BlockCount(disk.gitignore[1]) <= 1
  /\ round >= 1 => disk.gitignore # NoFile /\ Mentions(disk.gitignore)
  /\ (cmd = "init" /\ pc = "exited") =>
       IF Before.gitignore = NoFile THEN disk.gitignore = <<ignoreRules>>
       ELSE IF Mentions(Before.gitignore) THEN disk.gitignore = Before.gitignore
       ELSE /\ disk.gitignore[1] = Before.gitignore[1] \o <<"">> \o ignoreRules
            /\ BlockCount(disk.gitignore[1]) = 1

C18_Witness ==
  /\ cmd = "init"
  /\ pc = "exited"
  /\ round = 3
  /\ Before.gitignore # NoFile
  /\ BlockCount(Before.gitignore[1]) = 1
  /\ "node_modules" \in Range(Before.gitignore[1])
  /\ disk.gitignore = Before.gitignore

---------------------------------------------------------------------------
(* Properties of a reload on a tuture.yml that is no tutorial *)

BadYml(d) == d.yml # NoFile /\ d.yml[1] \in YmlPool

Fatals(msgs) == {i \in 1..Len(msgs) : msgs[i].level = "fatal"}

\* C19: a reload that found tuture.yml unreadable, no YAML, empty or without
\* steps is over with status 1 and one fatal message, the last thing printed,
\* and has left tuture.yml and tuture.json as they were
C19_BadYmlIsFatal ==
  (cmd = "reload" /\ pc = "exited"
     /\ (BadYml(Before) \/ fetches.err = "EACCES tuture.yml")) =>
    /\ exit = Exited(1)
    /\ Fatals(out) = {Len(out)}
    /\ disk.yml = Before.yml
    /\ disk.json = Before.json

---------------------------------------------------------------------------
(* What a reload keeps of the old tutorial *)

\* the hashes of the commits that are no merges and whose messages do not
\* begin with 'tuture:', oldest first, from commit i on
RECURSIVE HashesFrom(_, _)
HashesFrom(h, i) ==
  IF i > Len(h) THEN <<>>
  ELSE (IF Eligible(h[i]) THEN <<HashOf(i)>> ELSE <<>>) \o HashesFrom(h, i + 1)

Max(S) == CHOOSE x \in S : \A y \in S : y <= x

\* the old steps with this commit
OldWith(commit) == {j \in 1..Len(Old) : Old[j].commit = commit}

\* C20: after a reload the hashes of the steps in tuture.yml are the hashes of
\* the filtered history, oldest first and each once; no old step whose hash is
\* not among them is in tuture.yml; and where old steps have the hash of a
\* step, the step is the last of them
C20_StepsMirrorHistory ==
  Reloaded =>
    /\ [i \in 1..Len(Written) |-> Written[i].commit] = HashesFrom(history, 1)
    /\ \A j \in 1..Len(Old) :
         Old[j].commit \notin Range(HashesFrom(history, 1)) =>
           \A i \in 1..Len(Written) : Written[i] # Old[j]
    /\ \A i \in 1..Len(Written) :
         OldWith(Written[i].commit) # {} =>
           Written[i] = Old[Max(OldWith(Written[i].commit))]

C20_Witness ==
  /\ round = 1
  /\ Len(history) = 2
  /\ Old = <<oldEdited(HashOf(1)), oldPlain(HashOf(1))>>
  /\ Len(Written) = 2
  /\ Written[1] = oldPlain(HashOf(1))
  /\ Written[2].commit = HashOf(2)

====
